---- MODULE Spec2Model ----
(***************************************************************************)
(* WS402: session lifecycle and usage metering of src/src/WS402.ts.        *)
(*                                                                         *)
(* One WS402 instance serves the connections of Conns; clients is the set  *)
(* of those that connect in a run.  Every connection runs attach()'s       *)
(* connection callback: handleConnection waits for a payment proof, has    *)
(* the payment provider verify it, creates the session, starts the usage   *)
(* interval and registers the close and error handlers.  Time is the wall  *)
(* clock Date.now() in milliseconds.                                       *)
(*                                                                         *)
(* Spec is that lifecycle for a connection that sends nothing after its    *)
(* proof.  MessageSpec adds the inbound messages, SchemaSpec the calls of  *)
(* generateSchema, HttpSpec the WS402HTTPMiddleware of middlewarehttp.ts,  *)
(* SolanaSpec the refund of SolanaPaymentProvider, and PairSpec runs two   *)
(* connections side by side.  PriceSpec has a provider that prices the     *)
(* resource, ProofSpec further payment_proof messages, AttachSpec the map  *)
(* of attach() for two connections of any user, BaseSpec the references of *)
(* BasePaymentProvider and ProxySpec the gateway requests of               *)
(* ProxyPaymentProvider.                                                   *)
(***************************************************************************)
EXTENDS Integers, Sequences, FiniteSets, TLC

----------------------------------------------------------------------------
(* Bounds of the model *)

MaxTime == 4000
TimeStep == 500
MaxAmount == 4
MaxTokens == 2
MaxMessages == 2

(* Configuration of the Solana provider: lamports per unit of amount; its   *)
(* merchant keypair is loaded and autoRefund is on                         *)
ConversionRate == 1

(* Configuration of the instance (WS402Config, fixed at construction);     *)
(* values chosen small, not the defaults 3000, 1 and 3600                  *)
UpdateInterval == 1500
PricePerSecond == 1
MaxSessionDuration == 3

(* Constants of the program *)
ProofTimeout == 30000
InternalError == 1011
PolicyViolation == 1008
NormalClosure == 1000
MinBalance == 5000

Conns == {"ws1", "ws2"}
Proofs == {"proofA", "proofB"}
Amounts == {1, MaxAmount}
Reasons == {"insufficient amount", ""}
\* inbound messages as the bytes of their frame: the texts "A" and "e" with
\* an acute accent (two bytes in UTF-8), and a binary message of one byte
Payloads == {<<65>>, <<195, 169>>, <<255>>}
\* what connection.getBalance returns for the merchant wallet
Balances == {0, MinBalance + MaxAmount}
Resources == {"res1", "res2"}
Durations == {2, 3}
Overrides == {[given |-> FALSE, value |-> 0]}
                \cup [given : {TRUE}, value : {0, 2}]
\* what userIdExtractor returns: the userId parameter of the request URL,
\* 'anonymous' for a request without one
Anonymous == "anonymous"
Users == {Anonymous, "alice"}

----------------------------------------------------------------------------
VARIABLES
    clients,      \* the connections that are made in this run
    now,          \* Date.now()
    readyState,   \* ws.readyState of each connection
    errored,      \* the ws has emitted its 'error' event
    pc,           \* position of handleConnection for each connection
    connectedAt,  \* time waitForPaymentProof started its timeout
    caught,       \* the error that reached attach's catch block
    paymentProof, \* proof resolved by waitForPaymentProof
    verification, \* result returned by paymentProvider.verifyPayment
    sessions,     \* keys of the this.sessions map
    session,      \* the WS402Session object of each connection
    interval,     \* state of the setInterval timer of each connection
    lastFire,     \* time the interval was created or last fired
    inFlight,     \* endSession calls suspended in await issueRefund
    refundCalls,  \* calls made to paymentProvider.issueRefund
    emitted,      \* events emitted and hooks called, in order
    sent,         \* messages and close frame transmitted to the client
    refundResults, \* outcomes of the issueRefund calls that have settled
    tickTime,     \* time of the last metering by updateUsage, -1 if none
    endCount,     \* number of active -> ended changes of session.status
    settlement,   \* time and amounts at the active -> ended change
    received,     \* inbound messages delivered to the session's listener
    schema,       \* the last generateSchema call: arguments and result
    activeHTTPSessions, \* WS402HTTPMiddleware.activeHTTPSessions, in
                  \* insertion order
    issued,       \* session id of every token registerHTTPSession returned
    revoked,      \* tokens issued for a session id before it was removed
    response,     \* what protectHTTPResource did with the last request
    chain,        \* what SolanaPaymentProvider.issueRefund did on chain
    userOf,       \* userId that userIdExtractor gave for each connection
    userIdToWs,   \* the map that attach() returned
    proofMessages, \* proofs of the payment_proof messages that arrived
    verifyCalls,  \* proofs that handleConnection passed to verifyPayment
    references,   \* number of references generateReference has made
    pendingPayments, \* pendingPayments of BasePaymentProvider: its keys
    verifyRuns,   \* the verifyPayment calls of BasePaymentProvider
    proxy         \* the verifyPayment call of ProxyPaymentProvider

vars == <<clients, now, readyState, errored, pc, connectedAt, caught,
          paymentProof, verification, sessions, session, interval, lastFire,
          inFlight, refundCalls, emitted, sent, refundResults, tickTime,
          endCount, settlement, received, schema, activeHTTPSessions,
          issued, revoked, response, chain, userOf, userIdToWs,
          proofMessages, verifyCalls, references, pendingPayments,
          verifyRuns, proxy>>

\* the state of the session lifecycle apart from the inbound messages
lifecycleVars ==
    <<clients, now, readyState, errored, pc, connectedAt, caught,
      paymentProof, verification, sessions, session, interval, lastFire,
      inFlight, refundCalls, emitted, sent, refundResults, tickTime,
      endCount, settlement, userOf, userIdToWs, proofMessages, verifyCalls>>

\* what attach() and waitForPaymentProof keep of a connection
attachVars == <<userOf, userIdToWs, proofMessages, verifyCalls>>

\* the state of the payment providers
providerVars == <<references, pendingPayments, verifyRuns, proxy>>

\* the state outside the session lifecycle: the schema generator, the HTTP
\* middleware, the Solana ledger and the payment providers
apiVars ==
    <<schema, activeHTTPSessions, issued, revoked, response, chain,
      providerVars>>

NoProof == "none"
\* a PaymentVerification without its optional pricePerSecond
NoPrice == [given |-> FALSE, value |-> 0]
NoVerification ==
    [valid |-> FALSE, amount |-> 0, reason |-> "pending",
     pricePerSecond |-> NoPrice]
NoSettlement == [time |-> -1, paidAmount |-> 0, consumedAmount |-> 0]
\* generateSchema called without its optional third argument
NoOverride == [given |-> FALSE, value |-> 0]
\* no generateSchema call has been made
NoSchema ==
    [resourceId |-> "none", estimatedDuration |-> 0, override |-> NoOverride,
     result |-> [resourceId |-> "none",
                 pricing |-> [pricePerSecond |-> 0, estimatedDuration |-> 0,
                              totalPrice |-> 0],
                 paymentDetails |-> [amount |-> 0],
                 maxSessionDuration |-> 0]]
\* no request has reached protectHTTPResource
NoResponse == [token |-> 0, resourceId |-> "none", status |-> "none"]
\* no verifyPayment call of ProxyPaymentProvider has been made
NoError == [name |-> "none", code |-> "", message |-> <<>>]
NoRequest ==
    [state |-> "idle", proof |-> "none", attempt |-> 0, errors |-> <<>>,
     request |-> "none", thrown |-> NoError, result |-> NoVerification]
NoSession ==
    [userId |-> 0, sessionId |-> 0, startTime |-> 0, paidAmount |-> 0,
     consumedAmount |-> 0, elapsedSeconds |-> 0, bytesTransferred |-> 0,
     messageCount |-> 0, status |-> "none", paymentProof |-> NoProof,
     pricePerSecond |-> 0]

\* the results of verifyPayment of a provider that sets no pricePerSecond
Verifications ==
    [valid : {TRUE}, amount : Amounts, reason : {"ok"},
     pricePerSecond : {NoPrice}]
        \cup [valid : {FALSE}, amount : {0}, reason : Reasons,
               pricePerSecond : {NoPrice}]

\* the results of a provider that prices the resource paid for
PricedVerifications ==
    [valid : {TRUE}, amount : Amounts, reason : {"ok"},
     pricePerSecond : [given : {TRUE}, value : {PricePerSecond, 2}]]

----------------------------------------------------------------------------
(* Pure computations *)

\* variant: the operands of the subtraction are swapped
ElapsedSeconds_Swapped(t, startTime) == (startTime - t) \div 1000

\* Math.floor((now - session.startTime) / 1000)
ElapsedSeconds(t, startTime) == (t - startTime) \div 1000

\* session.elapsedSeconds * session.pricePerSecond
ConsumedAmount(elapsed, price) == elapsed * price

\* variant: the whole payment is refunded
RefundAmount_Paid(s) == s.paidAmount

\* variant: the session is metered again at the time of the call
RefundAmount_AtClose(s) ==
    s.paidAmount - ((now - s.startTime) \div 1000) * s.pricePerSecond

\* session.paidAmount - session.consumedAmount
RefundAmount(s) == s.paidAmount - s.consumedAmount

\* variant: a refund of zero is issued too
RefundDue_NonNegative(amount) == amount >= 0

\* if (refundAmount > 0)
RefundDue(amount) == amount > 0

\* variant: the result of the verification is not looked at
Accepted_Always(v) == TRUE

\* if (!verification.valid) ... return: only a valid verification goes on
Accepted(v) == v.valid

\* variant: the session is created without being made active
NewSession_Ended(c, t, v, proof) ==
    [userId |-> userOf[c], sessionId |-> c, startTime |-> t,
     paidAmount |-> v.amount,
     consumedAmount |-> 0, elapsedSeconds |-> 0, bytesTransferred |-> 0,
     messageCount |-> 0, status |-> "ended", paymentProof |-> proof,
     pricePerSecond |-> PricePerSecond]

\* the session object literal of handleConnection
NewSession(c, t, v, proof) ==
    [userId |-> userOf[c], sessionId |-> c, startTime |-> t,
     paidAmount |-> v.amount,
     consumedAmount |-> 0, elapsedSeconds |-> 0, bytesTransferred |-> 0,
     messageCount |-> 0, status |-> "active", paymentProof |-> proof,
     pricePerSecond |-> PricePerSecond]

\* ws.close(code): starts the closing handshake of an open socket
CloseSocket(rs) == IF rs = "OPEN" THEN "CLOSING" ELSE rs

\* ws.send(msg): transmitted only while the socket is open
Transmit(rs, out, msg) == IF rs = "OPEN" THEN Append(out, msg) ELSE out

\* ws.close(code): the close frame goes out if the socket is open
CloseFrame(rs, out, code) ==
    IF rs = "OPEN" THEN Append(out, [type |-> "close", code |-> code])
    ELSE out

\* variant: the reason of the verification is not passed on
RejectReason_Fixed(v) == "Invalid payment"

\* reason: verification.reason || 'Invalid payment'
RejectReason(v) == IF v.reason = "" THEN "Invalid payment" ELSE v.reason

\* variant: the confirmation is not sent
Acknowledge_Omitted(rs, out, s) == out

\* ws.send of the session_started confirmation
Acknowledge(rs, out, s) ==
    Transmit(rs, out, [type |-> "session_started", sessionId |-> s.sessionId,
                       balance |-> s.paidAmount,
                       pricePerSecond |-> s.pricePerSecond])

\* variant: the session is cut off one unit before the balance is used up
Exhausted_Early(remaining) == remaining <= 1

\* variant: the balance must be overdrawn, not just used up
Exhausted_Strict(remaining) == remaining < 0

\* if (remaining <= 0)
Exhausted(remaining) == remaining <= 0

\* variant: the cap must be exceeded, not just reached
Capped_Strict(elapsed) == elapsed > MaxSessionDuration

\* if (session.elapsedSeconds >= this.config.maxSessionDuration)
Capped(elapsed) == elapsed >= MaxSessionDuration

\* variant: the notice is sent but the socket is not closed
Notify_NoClose(st, cond, notice) ==
    IF cond
    THEN [rs |-> st.rs, out |-> Transmit(st.rs, st.out, [type |-> notice])]
    ELSE st

\* if (cond) { ws.send(notice); ws.close(1000, ...) } on the socket state and
\* output st
Notify(st, cond, notice) ==
    IF cond
    THEN [rs |-> CloseSocket(st.rs),
          out |-> CloseFrame(st.rs, Transmit(st.rs, st.out, [type |-> notice]),
                             NormalClosure)]
    ELSE st

\* variant: a failed refund is swallowed without an event
Settled_Silent(ok) ==
    (IF ok THEN <<"onRefundIssued", "refund">> ELSE <<>>)
        \o <<"onSessionEnd", "session_end">>

\* variant: a failed refund is thrown on and the session is not finalized
Settled_Rethrown(ok) ==
    IF ok THEN <<"onRefundIssued", "refund", "onSessionEnd", "session_end">>
          ELSE <<"refund_error">>

\* endSession after await issueRefund: what is emitted, in order
Settled(ok) ==
    (IF ok THEN <<"onRefundIssued", "refund">> ELSE <<"refund_error">>)
        \o <<"onSessionEnd", "session_end">>

----------------------------------------------------------------------------
(* updateUsage and endSession *)

\* variant: consumption is accumulated, one update interval per tick
UpdateUsage_Accumulate(s, t) ==
    [s EXCEPT !.elapsedSeconds = (t - s.startTime) \div 1000,
              !.consumedAmount =
                    @ + (UpdateInterval \div 1000) * s.pricePerSecond]

\* updateUsage: the metering assignments to the session
UpdateUsage(s, t) ==
    LET elapsed == ElapsedSeconds(t, s.startTime)
    IN  [s EXCEPT !.elapsedSeconds = elapsed,
                  !.consumedAmount = ConsumedAmount(elapsed, s.pricePerSecond)]

UsageUpdate(s) ==
    [type |-> "usage_update", sessionId |-> s.sessionId,
     elapsedSeconds |-> s.elapsedSeconds, consumedAmount |-> s.consumedAmount,
     remainingBalance |-> s.paidAmount - s.consumedAmount,
     bytesTransferred |-> s.bytesTransferred, messageCount |-> s.messageCount]

\* variant: the whole registry is emptied
Deleted_All(registry, c) == {}

\* this.sessions.delete(ws)
Deleted(registry, c) == registry \ {c}

\* endSession(ws, session) up to its first suspension; em is what the calling
\* handler has emitted so far
EndSession(c, em) ==
    LET s == session[c]
        refundAmount == RefundAmount(s)
    IN  /\ session' = [session EXCEPT ![c].status = "ended"]
        /\ endCount' = [endCount EXCEPT ![c] =
                            IF s.status = "active" THEN @ + 1 ELSE @]
        /\ settlement' = [settlement EXCEPT ![c] =
                            IF s.status = "active"
                            THEN [time |-> now, paidAmount |-> s.paidAmount,
                                  consumedAmount |-> s.consumedAmount]
                            ELSE @]
        /\ IF RefundDue(refundAmount)
           THEN /\ refundCalls' = [refundCalls EXCEPT ![c] =
                        Append(@, [proof |-> s.paymentProof,
                                   amount |-> refundAmount])]
                /\ inFlight' = [inFlight EXCEPT ![c] = Append(@, refundAmount)]
                /\ emitted' = [emitted EXCEPT ![c] = em]
                /\ sessions' = sessions
           ELSE /\ emitted' = [emitted EXCEPT ![c] =
                        em \o <<"onSessionEnd", "session_end">>]
                /\ sessions' = Deleted(sessions, c)
                /\ UNCHANGED <<refundCalls, inFlight>>

\* variant: the handlers leave the interval running
ClearInterval_Skipped(c) == interval' = interval

\* clearInterval(interval)
ClearInterval(c) == interval' = [interval EXCEPT ![c] = "cleared"]

\* data.toString() of a Buffer: the code points of the bytes decoded as
\* UTF-8, every byte that starts no valid sequence giving U+FFFD (sequences
\* of one and two bytes, which is all that Payloads holds)
RECURSIVE DataToString(_)
DataToString(data) ==
    IF data = <<>> THEN <<>>
    ELSE IF data[1] < 128 THEN <<data[1]>> \o DataToString(Tail(data))
    ELSE IF /\ data[1] \in 194..223
            /\ Len(data) >= 2
            /\ data[2] \in 128..191
         THEN <<(data[1] - 192) * 64 + (data[2] - 128)>>
                \o DataToString(Tail(Tail(data)))
    ELSE <<65533>> \o DataToString(Tail(data))

\* Buffer.byteLength(str, 'utf8'): the bytes of the UTF-8 encoding of str
RECURSIVE ByteLength(_)
ByteLength(str) ==
    IF str = <<>> THEN 0
    ELSE (IF str[1] < 128 THEN 1 ELSE IF str[1] < 2048 THEN 2 ELSE 3)
            + ByteLength(Tail(str))

\* variant: the default is taken for every falsy override (|| for ??)
SchemaPrice_Falsy(o) ==
    IF o.given /\ o.value # 0 THEN o.value ELSE PricePerSecond

\* pricePerSecond ?? this.config.pricePerSecond
SchemaPrice(o) == IF o.given THEN o.value ELSE PricePerSecond

\* paymentProvider.generatePaymentDetails(amount): the payment instructions
\* of the backend for that amount
GeneratePaymentDetails(amount) == [amount |-> amount]

\* generateSchema(resourceId, estimatedDuration, pricePerSecond?); currency,
\* protocol, version and endpoint are fixed texts and left out
GenerateSchema(resourceId, estimatedDuration, o) ==
    LET price == SchemaPrice(o)
        totalPrice == price * estimatedDuration
    IN  [resourceId |-> resourceId,
         pricing |-> [pricePerSecond |-> price,
                      estimatedDuration |-> estimatedDuration,
                      totalPrice |-> totalPrice],
         paymentDetails |-> GeneratePaymentDetails(totalPrice),
         maxSessionDuration |-> MaxSessionDuration]

\* getActiveSessions(): Array.from(this.sessions.values())
getActiveSessions == {session[c] : c \in sessions}

----------------------------------------------------------------------------
\* the state after construction of the WS402 instance, of the middleware and
\* of the provider, with the wall clock at t and cs the connections to come
Start(t, cs) ==
    /\ clients = cs
    /\ now = t
    /\ readyState = [c \in Conns |-> "NONE"]
    /\ errored = [c \in Conns |-> FALSE]
    /\ pc = [c \in Conns |-> "idle"]
    /\ connectedAt = [c \in Conns |-> 0]
    /\ caught = [c \in Conns |-> "none"]
    /\ paymentProof = [c \in Conns |-> NoProof]
    /\ verification = [c \in Conns |-> NoVerification]
    /\ sessions = {}
    /\ session = [c \in Conns |-> NoSession]
    /\ interval = [c \in Conns |-> "none"]
    /\ lastFire = [c \in Conns |-> 0]
    /\ inFlight = [c \in Conns |-> <<>>]
    /\ refundCalls = [c \in Conns |-> <<>>]
    /\ emitted = [c \in Conns |-> <<>>]
    /\ sent = [c \in Conns |-> <<>>]
    /\ refundResults = [c \in Conns |-> <<>>]
    /\ tickTime = [c \in Conns |-> -1]
    /\ endCount = [c \in Conns |-> 0]
    /\ settlement = [c \in Conns |-> NoSettlement]
    /\ received = [c \in Conns |-> <<>>]
    /\ schema = NoSchema
    /\ activeHTTPSessions = <<>>
    /\ issued = <<>>
    /\ revoked = {}
    /\ response = NoResponse
    /\ chain = [c \in Conns |-> <<>>]
    /\ userOf = [c \in Conns |-> "none"]
    /\ userIdToWs = [u \in Users |-> "none"]
    /\ proofMessages = [c \in Conns |-> <<>>]
    /\ verifyCalls = [c \in Conns |-> <<>>]
    /\ references = 0
    /\ pendingPayments = {}
    /\ verifyRuns = <<>>
    /\ proxy = NoRequest

Init == Start(0, {"ws1"})

\* the wall clock advances by one step; the run is observed for MaxTime from
\* its start and for MaxTime after the long wait
Advance ==
    /\ now + TimeStep <=
            (IF now < ProofTimeout THEN MaxTime ELSE ProofTimeout + MaxTime)
    /\ now' = now + TimeStep
    /\ UNCHANGED <<apiVars, received, attachVars>>
    /\ UNCHANGED <<clients, readyState, errored, pc, connectedAt, caught,
                   paymentProof, verification, sessions, session, interval,
                   lastFire, inFlight, refundCalls, emitted, sent,
                   refundResults, tickTime, endCount, settlement>>

\* a long time passes with no event: the wall clock advances by the length
\* of the proof timeout
Wait ==
    /\ now < ProofTimeout
    /\ now' = now + ProofTimeout
    /\ UNCHANGED <<apiVars, received, attachVars>>
    /\ UNCHANGED <<clients, readyState, errored, pc, connectedAt, caught,
                   paymentProof, verification, sessions, session, interval,
                   lastFire, inFlight, refundCalls, emitted, sent,
                   refundResults, tickTime, endCount, settlement>>

\* wss 'connection' for a request of user u: attach's callback enters the
\* connection in its map and registers the close listener that removes the
\* user's entry, handleConnection starts and waits for the proof
Connect(c, u) ==
    /\ c \in clients
    /\ pc[c] = "idle"
    /\ pc' = [pc EXCEPT ![c] = "awaitProof"]
    /\ connectedAt' = [connectedAt EXCEPT ![c] = now]
    /\ readyState' = [readyState EXCEPT ![c] = "OPEN"]
    /\ userOf' = [userOf EXCEPT ![c] = u]
    /\ userIdToWs' = [userIdToWs EXCEPT ![u] = c]
    /\ UNCHANGED <<apiVars, received, proofMessages, verifyCalls>>
    /\ UNCHANGED <<clients, now, errored, caught, paymentProof, verification,
                   sessions, session, interval, lastFire, inFlight,
                   refundCalls, emitted, sent, refundResults, tickTime,
                   endCount, settlement>>

\* variant: the handler of waitForPaymentProof is not removed
Listening_Verifying(p) == p \in {"awaitProof", "verifying"}

\* the 'message' handler of waitForPaymentProof is on the socket from the
\* start of the wait until ws.removeListener at the first payment_proof
Listening(p) == p = "awaitProof"

\* a payment_proof message arrives: waitForPaymentProof clears its timeout
\* and resolves, handleConnection calls paymentProvider.verifyPayment
ReceiveProof(c, p) ==
    /\ Listening(pc[c])
    /\ readyState[c] = "OPEN"
    /\ pc' = [pc EXCEPT ![c] = "verifying"]
    /\ paymentProof' = [paymentProof EXCEPT ![c] = p]
    /\ proofMessages' = [proofMessages EXCEPT ![c] = Append(@, p)]
    /\ verifyCalls' = [verifyCalls EXCEPT ![c] = Append(@, p)]
    /\ UNCHANGED <<apiVars, received, userOf, userIdToWs>>
    /\ UNCHANGED <<clients, now, readyState, errored, connectedAt, caught,
                   verification, sessions, session, interval, lastFire,
                   inFlight, refundCalls, emitted, sent, refundResults,
                   tickTime, endCount, settlement>>

\* variant: the catch block reports the error and leaves the socket open
Caught_NoClose(c, err, em) ==
    /\ pc' = [pc EXCEPT ![c] = "failed"]
    /\ caught' = [caught EXCEPT ![c] = err]
    /\ emitted' = [emitted EXCEPT ![c] = Append(em, "error")]
    /\ UNCHANGED <<sent, readyState>>

\* attach's catch block for the error err: emit('error'), ws.close(1011);
\* em is what handleConnection has emitted so far
Caught(c, err, em) ==
    /\ pc' = [pc EXCEPT ![c] = "failed"]
    /\ caught' = [caught EXCEPT ![c] = err]
    /\ emitted' = [emitted EXCEPT ![c] = Append(em, "error")]
    /\ sent' = [sent EXCEPT ![c] =
                    CloseFrame(readyState[c], @, InternalError)]
    /\ readyState' = [readyState EXCEPT ![c] = CloseSocket(@)]

\* the timeout of waitForPaymentProof fires: the promise is rejected and the
\* exception reaches attach's catch block
ProofTimeoutFires(c) ==
    /\ pc[c] = "awaitProof"
    /\ now >= connectedAt[c] + ProofTimeout
    /\ Caught(c, "Payment proof timeout", emitted[c])
    /\ UNCHANGED <<apiVars, received, attachVars>>
    /\ UNCHANGED <<clients, now, errored, connectedAt, paymentProof,
                   verification, sessions, session, interval, lastFire,
                   inFlight, refundCalls, refundResults, tickTime, endCount,
                   settlement>>

\* verifyPayment resolves with v; throws tells whether ws.send throws on a
\* socket that is not open (it does in ws before 8.0, it drops the message
\* from 8.0 on)
VerifyReturn(c, v, throws) ==
    /\ pc[c] = "verifying"
    /\ throws => readyState[c] # "OPEN"
    /\ verification' = [verification EXCEPT ![c] = v]
    /\ IF ~Accepted(v)
       THEN /\ IF throws
               THEN Caught(c, "WebSocket is not open", emitted[c])
               ELSE /\ sent' = [sent EXCEPT ![c] =
                            CloseFrame(readyState[c],
                                Transmit(readyState[c], @,
                                    [type |-> "payment_rejected",
                                     reason |-> RejectReason(v)]),
                                PolicyViolation)]
                    /\ readyState' = [readyState EXCEPT ![c] = CloseSocket(@)]
                    /\ pc' = [pc EXCEPT ![c] = "rejected"]
                    /\ UNCHANGED <<emitted, caught>>
            /\ UNCHANGED <<sessions, session, interval, lastFire>>
       ELSE LET s == NewSession(c, now, v, paymentProof[c])
            IN  /\ session' = [session EXCEPT ![c] = s]
                /\ sessions' = sessions \cup {c}
                /\ IF throws
                   THEN /\ Caught(c, "WebSocket is not open",
                                  Append(emitted[c], "onPaymentVerified"))
                        /\ UNCHANGED <<interval, lastFire>>
                   ELSE /\ pc' = [pc EXCEPT ![c] = "active"]
                        /\ emitted' = [emitted EXCEPT ![c] =
                                Append(@, "onPaymentVerified")]
                        /\ sent' = [sent EXCEPT ![c] =
                                Acknowledge(readyState[c], @, s)]
                        /\ interval' = [interval EXCEPT ![c] = "running"]
                        /\ lastFire' = [lastFire EXCEPT ![c] = now]
                        /\ UNCHANGED <<readyState, caught>>
    /\ UNCHANGED <<apiVars, received, attachVars>>
    /\ UNCHANGED <<clients, now, errored, connectedAt, paymentProof, inFlight,
                   refundCalls, refundResults, tickTime, endCount,
                   settlement>>

\* verifyPayment rejects: the exception reaches attach's catch block
VerifyThrow(c) ==
    /\ pc[c] = "verifying"
    /\ Caught(c, "verifyPayment failed", emitted[c])
    /\ UNCHANGED <<apiVars, received, attachVars>>
    /\ UNCHANGED <<clients, now, errored, connectedAt, paymentProof,
                   verification, sessions, session, interval, lastFire,
                   inFlight, refundCalls, refundResults, tickTime, endCount,
                   settlement>>

\* variant: updateUsage returns early only on a closed socket
Skipped_Closed(rs) == rs = "CLOSED"

\* if (ws.readyState !== WebSocket.OPEN) return;
Skipped(rs) == rs # "OPEN"

\* the interval fires: updateUsage(ws, session).  The second notice of a
\* tick that finds both limits reached goes to a socket that is already
\* closing: it is not transmitted (dropped, or ws.send throws out of the
\* timer callback, after which only the second ws.close is skipped)
Tick(c) ==
    /\ interval[c] = "running"
    /\ now >= lastFire[c] + UpdateInterval
    /\ lastFire' = [lastFire EXCEPT ![c] = now]
    /\ IF Skipped(readyState[c])
       THEN UNCHANGED <<session, sent, readyState, tickTime>>
       ELSE LET s == UpdateUsage(session[c], now)
                remaining == s.paidAmount - s.consumedAmount
                st1 == [rs |-> "OPEN", out |-> Append(sent[c], UsageUpdate(s))]
                st2 == Notify(st1, Exhausted(remaining), "balance_exhausted")
                st3 == Notify(st2, Capped(s.elapsedSeconds),
                              "max_duration_reached")
            IN  /\ session' = [session EXCEPT ![c] = s]
                /\ sent' = [sent EXCEPT ![c] = st3.out]
                /\ readyState' = [readyState EXCEPT ![c] = st3.rs]
                /\ tickTime' = [tickTime EXCEPT ![c] = now]
    /\ UNCHANGED <<apiVars, received, attachVars>>
    /\ UNCHANGED <<clients, now, errored, pc, connectedAt, caught,
                   paymentProof, verification, sessions, interval, inFlight,
                   refundCalls, emitted, refundResults, endCount, settlement>>

\* the ws emits 'close' (peer close, end of the closing handshake, or the
\* socket closing after an error): the listener of attach deletes the entry
\* of the connection's user, then the listener of handleConnection runs if
\* it is registered
CloseEvent(c) ==
    /\ readyState[c] \in {"OPEN", "CLOSING"}
    /\ readyState' = [readyState EXCEPT ![c] = "CLOSED"]
    /\ userIdToWs' = [userIdToWs EXCEPT ![userOf[c]] = "none"]
    /\ IF pc[c] = "active"
       THEN /\ ClearInterval(c)
            /\ EndSession(c, emitted[c])
       ELSE UNCHANGED <<interval, session, endCount, settlement,
                        refundCalls, inFlight, emitted, sessions>>
    /\ UNCHANGED <<apiVars, received, userOf, proofMessages, verifyCalls>>
    /\ UNCHANGED <<clients, now, errored, pc, connectedAt, caught,
                   paymentProof, verification, lastFire, sent, refundResults,
                   tickTime>>

\* variant: the error handler does not report the error
Reported_Silent(em) == em

\* this.emit('error', error) of the error handler, after what was emitted
Reported(em) == Append(em, "error")

\* the ws emits 'error': the socket is then closing and 'close' follows
ErrorEvent(c) ==
    /\ readyState[c] \in {"OPEN", "CLOSING"}
    /\ ~errored[c]
    /\ errored' = [errored EXCEPT ![c] = TRUE]
    /\ readyState' = [readyState EXCEPT ![c] = "CLOSING"]
    /\ IF pc[c] = "active"
       THEN /\ ClearInterval(c)
            /\ EndSession(c, Reported(emitted[c]))
       ELSE UNCHANGED <<interval, session, endCount, settlement,
                        refundCalls, inFlight, emitted, sessions>>
    /\ UNCHANGED <<apiVars, received, attachVars>>
    /\ UNCHANGED <<clients, now, pc, connectedAt, caught, paymentProof,
                   verification, lastFire, sent, refundResults, tickTime>>

\* endSession from its await on: the i-th suspended call resumes after
\* issueRefund has resolved (ok) or rejected
Resume(c, i, ok) ==
    /\ i \in 1..Len(inFlight[c])
    /\ inFlight' = [inFlight EXCEPT ![c] =
            SubSeq(@, 1, i - 1) \o SubSeq(@, i + 1, Len(@))]
    /\ refundResults' = [refundResults EXCEPT ![c] = Append(@, ok)]
    /\ emitted' = [emitted EXCEPT ![c] = @ \o Settled(ok)]
    /\ sessions' = IF "session_end" \in {Settled(ok)[k] :
                                            k \in 1..Len(Settled(ok))}
                   THEN Deleted(sessions, c) ELSE sessions
    /\ UNCHANGED <<clients, now, readyState, errored, pc, connectedAt, caught,
                   paymentProof, verification, session, interval, lastFire,
                   refundCalls, sent, tickTime, endCount, settlement>>

\* issueRefund of the payment provider settles for the i-th suspended
\* endSession call
RefundReturn(c, i, ok) ==
    /\ Resume(c, i, ok)
    /\ UNCHANGED <<apiVars, received, attachVars>>

Next ==
    \/ Advance
    \/ Wait
    \/ \E c \in Conns : Connect(c, Anonymous)
    \/ \E c \in Conns, p \in Proofs : ReceiveProof(c, p)
    \/ \E c \in Conns : ProofTimeoutFires(c)
    \/ \E c \in Conns, v \in Verifications, throws \in BOOLEAN :
            VerifyReturn(c, v, throws)
    \/ \E c \in Conns : VerifyThrow(c)
    \/ \E c \in Conns : Tick(c)
    \/ \E c \in Conns : CloseEvent(c)
    \/ \E c \in Conns : ErrorEvent(c)
    \/ \E c \in Conns : \E i \in 1..Len(inFlight[c]), ok \in BOOLEAN :
            RefundReturn(c, i, ok)

Spec == Init /\ [][Next]_vars

----------------------------------------------------------------------------
(* The operations beside the session lifecycle.  Each is observed in a     *)
(* specification of its own, next to a connection that goes through its    *)
(* lifecycle in the MaxTime \div 2 that follow the instant Late.            *)

Late == ProofTimeout + MaxTime \div 2

\* the events of a connection whose proof arrives in time and whose
\* verification returns
Lifecycle ==
    \/ Advance
    \/ \E c \in Conns : Connect(c, Anonymous)
    \/ \E c \in Conns, p \in Proofs : ReceiveProof(c, p)
    \/ \E c \in Conns, v \in Verifications, throws \in BOOLEAN :
            VerifyReturn(c, v, throws)
    \/ \E c \in Conns : Tick(c)
    \/ \E c \in Conns : CloseEvent(c)
    \/ \E c \in Conns : ErrorEvent(c)
    \/ \E c \in Conns : \E i \in 1..Len(inFlight[c]), ok \in BOOLEAN :
            RefundReturn(c, i, ok)

\* variant: an inbound message is charged for
Counted_Charged(s, data) ==
    [s EXCEPT !.bytesTransferred = @ + ByteLength(DataToString(data)),
              !.messageCount = @ + 1,
              !.consumedAmount = @ + 1]

\* the body of the 'message' listener of handleConnection
Counted(s, data) ==
    [s EXCEPT !.bytesTransferred = @ + ByteLength(DataToString(data)),
              !.messageCount = @ + 1]

\* the 'message' listener of handleConnection runs for an inbound message;
\* frames still arrive while the closing handshake is under way
Message(c, data) ==
    /\ pc[c] = "active"
    /\ readyState[c] \in {"OPEN", "CLOSING"}
    /\ ~errored[c]
    /\ Len(received[c]) < MaxMessages
    /\ received' = [received EXCEPT ![c] = Append(@, data)]
    /\ session' = [session EXCEPT ![c] = Counted(@, data)]
    /\ UNCHANGED <<apiVars, attachVars>>
    /\ UNCHANGED <<clients, now, readyState, errored, pc, connectedAt, caught,
                   paymentProof, verification, sessions, interval, lastFire,
                   inFlight, refundCalls, emitted, sent, refundResults,
                   tickTime, endCount, settlement>>

MessageNext ==
    \/ Lifecycle
    \/ \E c \in Conns, data \in Payloads : Message(c, data)

MessageSpec == Start(Late, {"ws1"}) /\ [][MessageNext]_vars

\* the application calls generateSchema(resourceId, estimatedDuration, o)
GenerateSchemaCall(resourceId, estimatedDuration, o) ==
    /\ schema' = [resourceId |-> resourceId,
                  estimatedDuration |-> estimatedDuration, override |-> o,
                  result |-> GenerateSchema(resourceId, estimatedDuration, o)]
    /\ UNCHANGED <<activeHTTPSessions, issued, revoked, response, chain,
                   received, providerVars>>
    /\ UNCHANGED lifecycleVars

SchemaNext ==
    \/ Lifecycle
    \/ \E r \in Resources, d \in Durations, o \in Overrides :
            GenerateSchemaCall(r, d, o)

SchemaSpec == Start(Late, {"ws1"}) /\ [][SchemaNext]_vars

----------------------------------------------------------------------------
(* WS402HTTPMiddleware of src/src/middlewarehttp.ts.  A token is the number *)
(* of the registerHTTPSession call that returned it (generateToken draws a  *)
(* fresh text from the clock and Math.random), 0 is a request without       *)
(* sessionToken.  startTime of an entry is never read and is left out.      *)

\* the entry activeHTTPSessions.get(token) finds, as a set of positions
Lookup(map, token) == {i \in 1..Len(map) : map[i].token = token}

\* protectHTTPResource: what the middleware does with a request
ProtectHTTPResource(map, sessionToken, resourceId) ==
    IF sessionToken = 0 THEN "402"
    ELSE IF Lookup(map, sessionToken) = {} THEN "403"
    ELSE "next"

\* removeHTTPSession: the first entry of the session in iteration order is
\* deleted, then the loop breaks
RemoveFirst(map, sessionId) ==
    LET found == {i \in 1..Len(map) : map[i].sessionId = sessionId}
    IN  IF found = {} THEN map
        ELSE LET first == CHOOSE i \in found : \A j \in found : i <= j
             IN  SubSeq(map, 1, first - 1) \o SubSeq(map, first + 1, Len(map))

\* registerHTTPSession(sessionId, resourceId), called by the application
\* after the payment of the session is verified
RegisterHTTPSession(sessionId, resourceId) ==
    /\ Len(issued) < MaxTokens
    /\ session[sessionId].status = "active"
    /\ activeHTTPSessions' = Append(activeHTTPSessions,
            [token |-> Len(issued) + 1, sessionId |-> sessionId,
             resourceId |-> resourceId, accessed |-> FALSE])
    /\ issued' = Append(issued,
            [sessionId |-> sessionId, resourceId |-> resourceId])
    /\ UNCHANGED <<schema, revoked, response, chain, received, providerVars>>
    /\ UNCHANGED lifecycleVars

\* removeHTTPSession(sessionId), called by the application when the session
\* has ended
RemoveHTTPSession(sessionId) ==
    /\ session[sessionId].status = "ended"
    /\ activeHTTPSessions' = RemoveFirst(activeHTTPSessions, sessionId)
    /\ revoked' = revoked \cup
            {t \in 1..Len(issued) : issued[t].sessionId = sessionId}
    /\ UNCHANGED <<schema, issued, response, chain, received, providerVars>>
    /\ UNCHANGED lifecycleVars

\* a request for resourceId with sessionToken reaches protectHTTPResource
Request(sessionToken, resourceId) ==
    LET status ==
            ProtectHTTPResource(activeHTTPSessions, sessionToken, resourceId)
    IN  /\ response' = [token |-> sessionToken, resourceId |-> resourceId,
                        status |-> status]
        /\ activeHTTPSessions' =
                [i \in 1..Len(activeHTTPSessions) |->
                    IF activeHTTPSessions[i].token = sessionToken
                    THEN [activeHTTPSessions[i] EXCEPT !.accessed = TRUE]
                    ELSE activeHTTPSessions[i]]
        /\ UNCHANGED <<schema, issued, revoked, chain, received,
                       providerVars>>
        /\ UNCHANGED lifecycleVars

HttpNext ==
    \/ \E c \in Conns : Connect(c, Anonymous)
    \/ \E c \in Conns, p \in Proofs : ReceiveProof(c, p)
    \/ \E c \in Conns, v \in Verifications, throws \in BOOLEAN :
            VerifyReturn(c, v, throws)
    \/ \E c \in Conns : CloseEvent(c)
    \/ \E c \in Conns : \E i \in 1..Len(inFlight[c]), ok \in BOOLEAN :
            RefundReturn(c, i, ok)
    \/ \E c \in Conns, r \in Resources : RegisterHTTPSession(c, r)
    \/ \E c \in Conns : RemoveHTTPSession(c)
    \/ \E t \in 0..MaxTokens, r \in Resources : Request(t, r)

HttpSpec == Start(Late, {"ws1"}) /\ [][HttpNext]_vars

----------------------------------------------------------------------------
(* SolanaPaymentProvider.issueRefund of                                    *)
(* src/src/providers/SolanaPaymentProvider.ts as the payment backend.      *)

\* proof.senderWallet: the wallet of proofA is a public key, that of proofB
\* is not
SenderWallet(proof) == IF proof = "proofA" THEN "valid" ELSE "invalid"

\* the try block of issueRefund: the error it throws, "none" if it runs to
\* its end; balance is the merchant's balance and sendOk tells whether
\* connection.sendTransaction goes through
RefundAttempt(proof, amount, balance, sendOk) ==
    LET lamports == amount \div ConversionRate
    IN  IF SenderWallet(proof) # "valid"
        THEN "Invalid sender wallet address"
        ELSE IF lamports < 1 THEN "none"
        ELSE IF balance < lamports + MinBalance
        THEN "Insufficient merchant balance"
        ELSE IF ~sendOk THEN "sendTransaction failed"
        ELSE "none"

\* issueRefund(proof, amount): its catch block logs the error and does not
\* throw, so the promise resolves whatever the try block did
SolanaIssueRefund(proof, amount, balance, sendOk) ==
    [resolved |-> TRUE,
     error |-> RefundAttempt(proof, amount, balance, sendOk)]

\* SolanaPaymentProvider.issueRefund settles for the i-th suspended
\* endSession call
SolanaRefundReturn(c, i, balance, sendOk) ==
    /\ i \in 1..Len(inFlight[c])
    /\ LET r == SolanaIssueRefund(session[c].paymentProof, inFlight[c][i],
                                  balance, sendOk)
       IN  /\ Resume(c, i, r.resolved)
           /\ chain' = [chain EXCEPT ![c] = Append(@, r.error)]
    /\ UNCHANGED <<schema, activeHTTPSessions, issued, revoked, response,
                   received, attachVars, providerVars>>

SolanaNext ==
    \/ Advance
    \/ \E c \in Conns : Connect(c, Anonymous)
    \/ \E c \in Conns, p \in Proofs : ReceiveProof(c, p)
    \/ \E c \in Conns, v \in Verifications, throws \in BOOLEAN :
            VerifyReturn(c, v, throws)
    \/ \E c \in Conns : Tick(c)
    \/ \E c \in Conns : CloseEvent(c)
    \/ \E c \in Conns : ErrorEvent(c)
    \/ \E c \in Conns : \E i \in 1..Len(inFlight[c]) :
            \E balance \in Balances, sendOk \in BOOLEAN :
                SolanaRefundReturn(c, i, balance, sendOk)

SolanaSpec == Start(Late, {"ws1"}) /\ [][SolanaNext]_vars

----------------------------------------------------------------------------
(* Two connections with a session each, both paying and neither failing    *)
(* on the transport: the sessions tick, close and are refunded side by     *)
(* side.                                                                   *)

PairNext ==
    \/ Advance
    \/ \E c \in Conns : Connect(c, Anonymous)
    \/ \E c \in Conns, p \in Proofs : ReceiveProof(c, p)
    \/ \E c \in Conns, v \in Verifications :
            v.valid /\ VerifyReturn(c, v, FALSE)
    \/ \E c \in Conns : Tick(c)
    \/ \E c \in Conns : CloseEvent(c)
    \/ \E c \in Conns : \E i \in 1..Len(inFlight[c]), ok \in BOOLEAN :
            RefundReturn(c, i, ok)

PairSpec == Start(Late, Conns) /\ [][PairNext]_vars

TypeOK ==
    /\ now \in 0..(ProofTimeout + MaxTime + TimeStep)
    /\ sessions \subseteq Conns
    /\ \A c \in Conns :
        /\ readyState[c] \in {"NONE", "OPEN", "CLOSING", "CLOSED"}
        /\ pc[c] \in {"idle", "awaitProof", "verifying", "active",
                      "rejected", "failed"}
        /\ interval[c] \in {"none", "running", "cleared"}
        /\ session[c].status \in {"none", "active", "ended"}
        /\ Len(inFlight[c]) <= 2

----------------------------------------------------------------------------
(* Properties *)

Max0(n) == IF n > 0 THEN n ELSE 0

NumEmitted(c, e) == Cardinality({i \in 1..Len(emitted[c]) : emitted[c][i] = e})

UsageUpdates(c) == {i \in 1..Len(sent[c]) : sent[c][i].type = "usage_update"}

\* C1: under any interleaving of the close and error events of a connection
\* the refund operation is called at most once for its session and
\* session_end is emitted at most once.
C1_SettledOnce ==
    \A c \in Conns :
        /\ Len(refundCalls[c]) <= 1
        /\ NumEmitted(c, "session_end") <= 1

\* C2: every refund call passes the session's payment proof and the amount
\* paidAmount - consumedAmount recorded at the active -> ended change, and
\* that amount is strictly positive.
C2_RefundCallArguments ==
    \A c \in Conns : \A i \in 1..Len(refundCalls[c]) :
        /\ session[c].status = "ended"
        /\ refundCalls[c][i].proof = paymentProof[c]
        /\ refundCalls[c][i].amount =
                settlement[c].paidAmount - settlement[c].consumedAmount
        /\ refundCalls[c][i].amount > 0

C2_Witness ==
    \E c \in Conns :
        /\ Len(refundCalls[c]) >= 1
        /\ session[c].consumedAmount > 0

\* C3 as stated: for every ended session
\* paidAmount = consumedAmount + max(0, paidAmount - consumedAmount).
C3_Conservation ==
    \A c \in Conns :
        session[c].status = "ended" =>
            session[c].paidAmount = session[c].consumedAmount
                + Max0(session[c].paidAmount - session[c].consumedAmount)

\* C3 amended: for every ended session every refund call carries
\* max(0, paidAmount - consumedAmount), no call is made when that is 0, and
\* paidAmount = consumedAmount + that amount when consumedAmount <= paidAmount;
\* a session whose last tick metered more than was paid ends with
\* consumedAmount > paidAmount and no refund.
C3_ConservationUnlessOverdrawn ==
    \A c \in Conns :
        session[c].status = "ended" =>
            LET paid == session[c].paidAmount
                consumed == session[c].consumedAmount
                refunds == {refundCalls[c][i].amount :
                                i \in 1..Len(refundCalls[c])}
            IN  /\ refunds \subseteq {Max0(paid - consumed)}
                /\ consumed < paid => \E r \in refunds : paid = consumed + r
                /\ consumed >= paid => refunds = {}

C3_Witness ==
    \E c \in Conns :
        /\ session[c].status = "ended"
        /\ session[c].consumedAmount > session[c].paidAmount
        /\ refundCalls[c] = <<>>

\* C4: a connection has a session in the registry, or a tick timer, only
\* after its verification returned valid; while the proof is awaited or
\* being verified, and after a rejection, it has neither.
C4_SessionOnlyAfterValid ==
    \A c \in Conns :
        /\ (c \in sessions \/ interval[c] # "none"
                \/ session[c].status # "none") => verification[c].valid
        /\ pc[c] \in {"idle", "awaitProof", "verifying", "rejected"} =>
                (c \notin sessions /\ interval[c] = "none")

C4_Witness ==
    \E c \in Conns :
        /\ c \in sessions
        /\ interval[c] = "running"
        /\ verification[c].valid

\* C5: once the connection of a session is closed and no refund call is
\* outstanding, the session has status 'ended' and is out of the registry.
C5_SettledAndRemoved ==
    \A c \in Conns :
        (/\ session[c].status # "none"
         /\ readyState[c] = "CLOSED"
         /\ inFlight[c] = <<>>)
            => (session[c].status = "ended" /\ c \notin sessions)

\* C6: after every tick consumedAmount = elapsedSeconds * pricePerSecond with
\* elapsedSeconds = floor((tick time - startTime) / 1000), in the session and
\* in the usage_update sent.
C6_ConsumedRecomputed ==
    \A c \in Conns :
        /\ tickTime[c] >= 0 =>
            LET e == (tickTime[c] - session[c].startTime) \div 1000
            IN  /\ session[c].elapsedSeconds = e
                /\ session[c].consumedAmount = e * session[c].pricePerSecond
        /\ \A i \in UsageUpdates(c) :
                sent[c][i].consumedAmount =
                    sent[c][i].elapsedSeconds * session[c].pricePerSecond

C6_Witness ==
    \E c \in Conns :
        /\ tickTime[c] >= 0
        /\ (tickTime[c] - session[c].startTime) % 1000 # 0
        /\ session[c].elapsedSeconds >= 2
        /\ Cardinality(UsageUpdates(c)) >= 2

\* C7: across the ticks of a session elapsedSeconds and consumedAmount never
\* decrease and the remainingBalance reported never increases.
C7_MonotoneUsage ==
    \A c \in Conns : \A i, j \in UsageUpdates(c) :
        i < j =>
            /\ sent[c][i].elapsedSeconds <= sent[c][j].elapsedSeconds
            /\ sent[c][i].consumedAmount <= sent[c][j].consumedAmount
            /\ sent[c][i].remainingBalance >= sent[c][j].remainingBalance

C7_Witness ==
    \E c \in Conns : \E i, j \in UsageUpdates(c) :
        /\ i < j
        /\ sent[c][i].elapsedSeconds < sent[c][j].elapsedSeconds
        /\ sent[c][i].remainingBalance > sent[c][j].remainingBalance

C9_NoTickAfterEnd ==
    /\ [](\A c \in Conns :
            session[c].status = "ended" => interval[c] = "cleared")
    /\ [][\A c \in Conns :
            session[c].status = "ended" =>
                /\ session'[c].elapsedSeconds = session[c].elapsedSeconds
                /\ session'[c].consumedAmount = session[c].consumedAmount
                /\ tickTime'[c] = tickTime[c]
                /\ UsageUpdates(c)' = UsageUpdates(c)]_vars

C9_Witness ==
    \E c \in Conns :
        /\ session[c].status = "ended"
        /\ inFlight[c] # <<>>
        /\ now >= lastFire[c] + UpdateInterval

\* C10: the settlement uses the consumption metered at the time of the close,
\* floor((closeTime - startTime) / 1000) * pricePerSecond.
C10_MeteredAtClose ==
    \A c \in Conns :
        session[c].status = "ended" =>
            settlement[c].consumedAmount =
                ((settlement[c].time - session[c].startTime) \div 1000)
                    * session[c].pricePerSecond

\* the type of every entry of the output of a connection
Sent(c, type) == {i \in 1..Len(sent[c]) : sent[c][i].type = type}

Notices(c) == Sent(c, "balance_exhausted") \cup Sent(c, "max_duration_reached")

IsClose(c, i, code) ==
    /\ i <= Len(sent[c])
    /\ sent[c][i].type = "close"
    /\ sent[c][i].code = code

\* consumption left by the last tick of the session, 0 if it had none
LastTickConsumed(c) ==
    IF tickTime[c] < 0 THEN 0
    ELSE ((tickTime[c] - session[c].startTime) \div 1000)
            * session[c].pricePerSecond

\* C11: the settlement and every refund call use the consumedAmount stored
\* by the most recent tick; nothing is metered between that tick and the
\* refund call.
C11_RefundFromLastTick ==
    \A c \in Conns :
        session[c].status = "ended" =>
            /\ tickTime[c] <= settlement[c].time
            /\ settlement[c].consumedAmount = LastTickConsumed(c)
            /\ \A i \in 1..Len(refundCalls[c]) :
                    refundCalls[c][i].amount =
                        session[c].paidAmount - LastTickConsumed(c)

C11_Witness ==
    \E c \in Conns :
        /\ refundCalls[c] # <<>>
        /\ tickTime[c] >= 0
        /\ (settlement[c].time - session[c].startTime) \div 1000
                > session[c].elapsedSeconds

\* C12: after the proof timeout (30 s with no payment_proof) the connection
\* is closing or closed, the close frame the server sent carries the error
\* code 1011, and the connection has no session, no registry entry, no tick
\* timer and no refund call.
C12_ProofTimeout ==
    /\ [](\A c \in Conns :
            caught[c] = "Payment proof timeout" =>
                /\ now >= connectedAt[c] + ProofTimeout
                /\ paymentProof[c] = NoProof
                /\ readyState[c] \in {"CLOSING", "CLOSED"}
                /\ \A i \in Sent(c, "close") : IsClose(c, i, InternalError)
                /\ session[c].status = "none"
                /\ c \notin sessions
                /\ interval[c] = "none"
                /\ refundCalls[c] = <<>>)
    /\ [][\A c \in Conns :
            (/\ caught[c] = "none"
             /\ caught'[c] = "Payment proof timeout"
             /\ readyState[c] = "OPEN") =>
                /\ readyState'[c] = "CLOSING"
                /\ sent'[c] = Append(sent[c], [type |-> "close",
                                                code |-> InternalError])]_vars

C12_Witness ==
    \E c \in Conns :
        /\ caught[c] = "Payment proof timeout"
        /\ Sent(c, "close") # {}
        /\ readyState[c] = "CLOSED"

\* C13: a verification that returns valid=false on an open connection sends
\* exactly one payment_rejected with the reason of the verification and then
\* closes with code 1008; whatever the state of the connection, no session
\* is created or registered, no tick timer started and no refund attempted.
C13_Rejected ==
    /\ [](\A c \in Conns :
            verification[c].reason \in Reasons =>
                /\ session[c].status = "none"
                /\ c \notin sessions
                /\ interval[c] = "none"
                /\ refundCalls[c] = <<>>
                /\ Cardinality(Sent(c, "payment_rejected")) <= 1
                /\ \A i \in Sent(c, "payment_rejected") :
                    /\ verification[c].reason # "" =>
                            sent[c][i].reason = verification[c].reason
                    /\ IsClose(c, i + 1, PolicyViolation)
                    /\ Len(sent[c]) = i + 1)
    /\ [][\A c \in Conns :
            (/\ pc[c] = "verifying"
             /\ verification'[c].reason \in Reasons
             /\ readyState[c] = "OPEN") =>
                /\ Sent(c, "payment_rejected")' = {Len(sent[c]) + 1}
                /\ readyState'[c] = "CLOSING"]_vars

C13_Witness ==
    \E c \in Conns :
        /\ verification[c].reason = "insufficient amount"
        /\ Sent(c, "payment_rejected") # {}
        /\ readyState[c] = "CLOSED"

\* C14: when verifyPayment throws, the client is sent a payment_rejected
\* message and the connection is closed with code 1008, as for valid=false.
C14_ThrowIsRejection ==
    \A c \in Conns :
        caught[c] = "verifyPayment failed" =>
            /\ session[c].status = "none"
            /\ Sent(c, "close") # {} =>
                /\ Sent(c, "payment_rejected") # {}
                /\ \A i \in Sent(c, "close") : IsClose(c, i, PolicyViolation)

\* C15: every refund call that fails is followed by refund_error, then by
\* the onSessionEnd hook and session_end, and the session is out of the
\* registry.
C15_RefundFailure ==
    \A c \in Conns :
        /\ Cardinality({i \in 1..Len(refundResults[c]) :
                            ~refundResults[c][i]})
                = NumEmitted(c, "refund_error")
        /\ \A i \in 1..Len(emitted[c]) :
                emitted[c][i] = "refund_error" =>
                    /\ i + 2 <= Len(emitted[c])
                    /\ emitted[c][i + 1] = "onSessionEnd"
                    /\ emitted[c][i + 2] = "session_end"
                    /\ c \notin sessions

C15_Witness ==
    \E c \in Conns :
        /\ refundResults[c] # <<>>
        /\ ~refundResults[c][1]
        /\ NumEmitted(c, "refund_error") = 1

\* C16: a usage_update whose remainingBalance is <= 0 is followed at once by
\* balance_exhausted and then by the close frame with code 1000.
C16_ExhaustedNotice ==
    \A c \in Conns : \A i \in UsageUpdates(c) :
        sent[c][i].remainingBalance <= 0 =>
            /\ i + 1 \in Sent(c, "balance_exhausted")
            /\ IsClose(c, i + 2, NormalClosure)
            /\ readyState[c] # "OPEN"

C16_Witness ==
    \E c \in Conns : \E i \in UsageUpdates(c) :
        /\ sent[c][i].remainingBalance = 0
        /\ sent[c][i].elapsedSeconds < MaxSessionDuration
        /\ readyState[c] = "CLOSING"

\* C17: a session that was sent balance_exhausted settles with no refund:
\* issueRefund is not called and neither the refund event nor the
\* onRefundIssued hook fires.
C17_ExhaustedNoRefund ==
    \A c \in Conns :
        Sent(c, "balance_exhausted") # {} =>
            /\ refundCalls[c] = <<>>
            /\ NumEmitted(c, "refund") = 0
            /\ NumEmitted(c, "onRefundIssued") = 0
            /\ session[c].status = "ended" =>
                    settlement[c].paidAmount <= settlement[c].consumedAmount

C17_Witness ==
    \E c \in Conns :
        /\ Sent(c, "balance_exhausted") # {}
        /\ session[c].status = "ended"
        /\ NumEmitted(c, "session_end") >= 1

\* C18 as stated: at any tick where elapsedSeconds >= maxSessionDuration a
\* max_duration_reached notice is sent.
C18_NoticeAtCap ==
    \A c \in Conns : \A i \in UsageUpdates(c) :
        sent[c][i].elapsedSeconds >= MaxSessionDuration =>
            \E j \in Sent(c, "max_duration_reached") : j > i

\* C18 amended: at any tick where elapsedSeconds >= maxSessionDuration the
\* connection is closed with code 1000; max_duration_reached is sent unless
\* the same tick found the balance exhausted, and then only
\* balance_exhausted is sent; when the tick observes elapsedSeconds =
\* maxSessionDuration, every refund call carries
\* max(0, paidAmount - maxSessionDuration * pricePerSecond) and none is made
\* when that is 0.
C18_NoticeAtCapUnlessExhausted ==
    \A c \in Conns : \A i \in UsageUpdates(c) :
        sent[c][i].elapsedSeconds >= MaxSessionDuration =>
            /\ readyState[c] # "OPEN"
            /\ IsClose(c, i + 2, NormalClosure)
            /\ sent[c][i].remainingBalance > 0 =>
                    i + 1 \in Sent(c, "max_duration_reached")
            /\ sent[c][i].remainingBalance <= 0 =>
                    /\ i + 1 \in Sent(c, "balance_exhausted")
                    /\ Sent(c, "max_duration_reached") = {}
            /\ sent[c][i].elapsedSeconds = MaxSessionDuration =>
                LET due == Max0(session[c].paidAmount
                            - MaxSessionDuration * session[c].pricePerSecond)
                IN  /\ \A k \in 1..Len(refundCalls[c]) :
                            refundCalls[c][k].amount = due
                    /\ due = 0 => refundCalls[c] = <<>>
                    /\ (due > 0 /\ session[c].status = "ended") =>
                            refundCalls[c] # <<>>

C18_Witness ==
    \E c \in Conns : \E i \in UsageUpdates(c) :
        /\ sent[c][i].elapsedSeconds = MaxSessionDuration
        /\ i + 1 \in Sent(c, "max_duration_reached")
        /\ refundCalls[c] # <<>>
        /\ refundCalls[c][1].amount = session[c].paidAmount
                - MaxSessionDuration * session[c].pricePerSecond

\* C19: in the output of a connection session_started comes before every
\* usage_update, a terminal notice is followed by the close frame, and
\* nothing is transmitted after the close frame.
C19_MessageOrder ==
    \A c \in Conns :
        /\ UsageUpdates(c) # {} => Sent(c, "session_started") = {1}
        /\ \A i \in Notices(c) : i + 1 \in Sent(c, "close")
        /\ \A i \in Sent(c, "close") : i = Len(sent[c])

C19_Witness ==
    \E c \in Conns :
        /\ Sent(c, "session_started") = {1}
        /\ Cardinality(UsageUpdates(c)) >= 2
        /\ Notices(c) # {}
        /\ Sent(c, "close") = {Len(sent[c])}

\* C20: a session gets at most one terminal notice; one that the server
\* closes with code 1000 got exactly one, right before the close frame; a
\* tick that finds the balance exhausted and the cap reached sends
\* balance_exhausted.
C20_OneTerminalNotice ==
    \A c \in Conns :
        /\ Cardinality(Notices(c)) <= 1
        /\ \A i \in Sent(c, "close") :
                sent[c][i].code = NormalClosure => Notices(c) = {i - 1}
        /\ \A i \in UsageUpdates(c) :
                (/\ sent[c][i].remainingBalance <= 0
                 /\ sent[c][i].elapsedSeconds >= MaxSessionDuration)
                    => Notices(c) = Sent(c, "balance_exhausted")

C20_Witness ==
    \E c \in Conns : \E i \in UsageUpdates(c) :
        /\ sent[c][i].remainingBalance <= 0
        /\ sent[c][i].elapsedSeconds >= MaxSessionDuration
        /\ Sent(c, "balance_exhausted") = {i + 1}
        /\ session[c].status = "ended"

\* C21: the result of getActiveSessions() never contains a session whose
\* status is 'ended'.
C21_OnlyActiveListed ==
    \A s \in getActiveSessions : s.status = "active"

\* C22: generateSchema returns pricing.totalPrice = (the override if given,
\* else the configured price per second) * estimatedDuration, with the payment
\* details the backend gives for exactly that total, and a call changes no
\* session, timer or registry entry.
C22_SchemaTotal ==
    /\ [](schema # NoSchema =>
            LET price == IF schema.override.given THEN schema.override.value
                         ELSE PricePerSecond
                total == price * schema.estimatedDuration
            IN  /\ schema.result.pricing.totalPrice = total
                /\ schema.result.pricing.pricePerSecond = price
                /\ schema.result.paymentDetails.amount = total)
    /\ [][schema' # schema =>
            UNCHANGED <<sessions, session, interval, refundCalls, emitted>>]_vars

C22_Witness ==
    /\ schema.override = [given |-> TRUE, value |-> 0]
    /\ schema.result.pricing.totalPrice = 0
    /\ \E c \in sessions : session[c].status = "active"

\* C23: once removeHTTPSession has been called for an ended session, no token
\* registerHTTPSession had issued for that session is let through by
\* protectHTTPResource, whatever resource is requested.
C23_RemovedTokenRefused ==
    \A t \in revoked : \A r \in Resources :
        ProtectHTTPResource(activeHTTPSessions, t, r) # "next"

\* C24: protectHTTPResource lets a request through only if the resource
\* requested is the one the presented token was registered for.
C24_TokenBoundToResource ==
    response.status = "next" =>
        issued[response.token].resourceId = response.resourceId

IsOutcome(e) == e \in {"refund", "refund_error"}

\* the refund and refund_error events of a connection, in order
Outcomes(c) == SelectSeq(emitted[c], IsOutcome)

C26_InRegistryUntilSettled ==
    \A c \in Conns :
        session[c].status # "none" =>
            /\ inFlight[c] # <<>> => c \in sessions
            /\ c \notin sessions =>
                    /\ NumEmitted(c, "onSessionEnd") >= 1
                    /\ NumEmitted(c, "session_end") >= 1

\* C27: an 'error' event of a connection whose session is active emits error,
\* cancels the tick timer, sets the status to 'ended' and settles as a close
\* does: a refund call for paidAmount - consumedAmount if that is positive,
\* else onSessionEnd, session_end and removal at once; when no refund call is
\* pending any more the session has had its session_end and is out of the
\* registry.
C27_ErrorSettles ==
    /\ [][\A c \in Conns :
            (/\ pc[c] = "active"
             /\ session[c].status = "active"
             /\ ~errored[c]
             /\ errored'[c]) =>
                LET s == session[c]
                    amount == s.paidAmount - s.consumedAmount
                IN  /\ interval'[c] = "cleared"
                    /\ session'[c] = [s EXCEPT !.status = "ended"]
                    /\ IF amount > 0
                       THEN /\ emitted'[c] = Append(emitted[c], "error")
                            /\ refundCalls'[c] = Append(refundCalls[c],
                                    [proof |-> s.paymentProof,
                                     amount |-> amount])
                       ELSE /\ emitted'[c] = emitted[c] \o
                                    <<"error", "onSessionEnd", "session_end">>
                            /\ refundCalls'[c] = refundCalls[c]
                            /\ c \notin sessions']_vars
    /\ [](\A c \in Conns :
            (/\ errored[c]
             /\ session[c].status = "ended"
             /\ inFlight[c] = <<>>) =>
                /\ NumEmitted(c, "session_end") >= 1
                /\ c \notin sessions)

C27_Witness ==
    \E c \in Conns :
        /\ errored[c]
        /\ readyState[c] = "CLOSING"
        /\ session[c].status = "ended"
        /\ session[c].consumedAmount > 0
        /\ emitted[c] = <<"onPaymentVerified", "error", "onRefundIssued",
                          "refund", "onSessionEnd", "session_end">>
        /\ c \notin sessions

\* C28: a refund call of one session that fails changes no field, timer or
\* registry entry of another session and nothing emitted or sent for it; and
\* whatever fails elsewhere, every session is metered from its own start
\* time and refunded with its own proof and its own paidAmount -
\* consumedAmount.
C28_FailureIsLocal ==
    /\ [][\A c \in Conns :
            (/\ Len(refundResults'[c]) = Len(refundResults[c]) + 1
             /\ ~refundResults'[c][Len(refundResults'[c])]) =>
                \A d \in Conns \ {c} :
                    /\ session'[d] = session[d]
                    /\ interval'[d] = interval[d]
                    /\ lastFire'[d] = lastFire[d]
                    /\ (d \in sessions') = (d \in sessions)
                    /\ inFlight'[d] = inFlight[d]
                    /\ emitted'[d] = emitted[d]
                    /\ sent'[d] = sent[d]
                    /\ readyState'[d] = readyState[d]]_vars
    /\ [](\A d \in Conns :
            /\ tickTime[d] >= 0 =>
                    session[d].consumedAmount =
                        ((tickTime[d] - session[d].startTime) \div 1000)
                            * session[d].pricePerSecond
            /\ \A i \in 1..Len(refundCalls[d]) :
                    refundCalls[d][i] =
                        [proof |-> paymentProof[d],
                         amount |-> session[d].paidAmount
                                        - session[d].consumedAmount]
            /\ (session[d].status = "ended" /\ inFlight[d] = <<>>) =>
                    d \notin sessions)

\* the refund of one session has failed; the other session, which was
\* active then, has ticked since and was refunded
C28_Witness ==
    \E c \in Conns : \E d \in Conns \ {c} :
        /\ refundResults[c] = <<FALSE>>
        /\ c \notin sessions
        /\ session[d].startTime >= settlement[c].time
        /\ tickTime[d] > settlement[c].time
        /\ refundResults[d] = <<TRUE>>
        /\ NumEmitted(d, "session_end") = 1
        /\ d \notin sessions

RECURSIVE TotalBytes(_)
TotalBytes(msgs) ==
    IF msgs = <<>> THEN 0 ELSE Len(msgs[1]) + TotalBytes(Tail(msgs))

\* C29: messageCount is the number of inbound messages received since the
\* session started and bytesTransferred the sum of their byte lengths, and
\* neither counter decreases from one usage_update to the next.
C29_CountersFollowMessages ==
    \A c \in Conns :
        /\ session[c].messageCount = Len(received[c])
        /\ session[c].bytesTransferred = TotalBytes(received[c])
        /\ \A i, j \in UsageUpdates(c) :
                i < j =>
                    /\ sent[c][i].messageCount <= sent[c][j].messageCount
                    /\ sent[c][i].bytesTransferred
                            <= sent[c][j].bytesTransferred

\* C30: with SolanaPaymentProvider as the backend, every refund that failed
\* on chain (insufficient merchant balance, invalid sender wallet, rejected
\* transaction) is answered by a refund_error event for its session.
C30_ChainFailureReported ==
    \A c \in Conns : \A i \in 1..Len(chain[c]) :
        chain[c][i] # "none" =>
            (i <= Len(Outcomes(c)) /\ Outcomes(c)[i] = "refund_error")

\* C31: a connection that closed, or failed, before its close and error
\* handlers were registered (while the proof was awaited or the verification
\* was in flight) has no session in the registry and no usage interval, also
\* after the verification has returned valid.
C31_NoSessionAfterEarlyClose ==
    \A c \in Conns :
        (readyState[c] = "CLOSED" /\ endCount[c] = 0)
            => (c \notin sessions /\ interval[c] # "running")

\* C32: the consumedAmount of a session never exceeds maxSessionDuration *
\* pricePerSecond: not in the session after a tick, not in a usage_update,
\* not at settlement.
C32_ChargeWithinCap ==
    \A c \in Conns :
        /\ session[c].consumedAmount
                <= MaxSessionDuration * session[c].pricePerSecond
        /\ settlement[c].consumedAmount
                <= MaxSessionDuration * session[c].pricePerSecond
        /\ \A i \in UsageUpdates(c) :
                sent[c][i].consumedAmount
                    <= MaxSessionDuration * session[c].pricePerSecond

----------------------------------------------------------------------------
(* A payment provider whose verification carries the price of the resource *)
(* paid for (the optional pricePerSecond of PaymentVerification).          *)

PriceNext ==
    \/ Advance
    \/ \E c \in Conns : Connect(c, Anonymous)
    \/ \E c \in Conns, p \in Proofs : ReceiveProof(c, p)
    \/ \E c \in Conns, v \in PricedVerifications, throws \in BOOLEAN :
            VerifyReturn(c, v, throws)
    \/ \E c \in Conns : Tick(c)
    \/ \E c \in Conns : CloseEvent(c)
    \/ \E c \in Conns : ErrorEvent(c)
    \/ \E c \in Conns : \E i \in 1..Len(inFlight[c]), ok \in BOOLEAN :
            RefundReturn(c, i, ok)

PriceSpec == Start(Late, {"ws1"}) /\ [][PriceNext]_vars

\* C33: the pricePerSecond of a session is the price carried by the
\* verification result when it carries one, the configured default otherwise.
C33_SessionPrice ==
    \A c \in Conns :
        session[c].status # "none" =>
            session[c].pricePerSecond =
                (IF verification[c].pricePerSecond.given
                 THEN verification[c].pricePerSecond.value
                 ELSE PricePerSecond)

\* a session that was created, or a session object not yet created
Created(c) == session[c].status # "none"

\* the fields of s that the core never writes after creation
Identity(s) ==
    <<s.sessionId, s.userId, s.startTime, s.paidAmount, s.paymentProof,
      s.pricePerSecond>>

\* C34: once a session is created its sessionId, userId, startTime,
\* paidAmount, paymentProof and pricePerSecond never change; a tick changes
\* only elapsedSeconds and consumedAmount, an inbound message only
\* bytesTransferred and messageCount, the settlement only status, and nothing
\* else changes the session.
C34_SessionFrame ==
    [][\A c \in Conns :
        Created(c) =>
            LET s == session[c]
                t == session'[c]
            IN  /\ Identity(t) = Identity(s)
                /\ IF lastFire'[c] # lastFire[c]
                   THEN t = [s EXCEPT !.elapsedSeconds = t.elapsedSeconds,
                                      !.consumedAmount = t.consumedAmount]
                   ELSE IF received'[c] # received[c]
                   THEN t = [s EXCEPT
                                !.bytesTransferred = t.bytesTransferred,
                                !.messageCount = t.messageCount]
                   ELSE IF endCount'[c] # endCount[c]
                   THEN t = [s EXCEPT !.status = "ended"]
                   ELSE t = s]_vars

C34_Witness ==
    \E c \in Conns :
        /\ tickTime[c] >= 0
        /\ session[c].consumedAmount > 0
        /\ session[c].messageCount > 0
        /\ session[c].status = "ended"

----------------------------------------------------------------------------
(* BasePaymentProvider of src/src/providers/BasePaymentProvider.ts:        *)
(* generatePaymentDetails and verifyPayment (SolanaPaymentProvider has the *)
(* same two steps around its pendingPayments).  A reference is the number  *)
(* of the generatePaymentDetails call that made it (generateReference      *)
(* draws a fresh text), NoReference a proof.reference that was never       *)
(* issued.                                                                 *)

MaxReferences == 2
MaxCalls == 3
NoReference == 0

\* what the chain shows for the transaction of a proof: confirmed and paying
\* the expected amount to the merchant, or one of the failures
ChainOutcomes ==
    {"confirmed", "Transaction not found on blockchain",
     "Transaction failed or not confirmed", "Payment sent to wrong address",
     "Amount mismatch", "Verification error"}

\* verifyPayment up to its first await: the pending payment is looked up and
\* its age checked; expired is what the comparison of Date.now() with the
\* timestamp of the pending payment gives
BaseVerifyStart(pending, reference, txHash, expired) ==
    IF ~txHash
    THEN [pending |-> pending,
          run |-> [reference |-> reference, state |-> "returned",
                   valid |-> FALSE, reason |-> "Missing transaction hash"]]
    ELSE IF reference \notin pending
    THEN [pending |-> pending,
          run |-> [reference |-> reference, state |-> "returned",
                   valid |-> FALSE,
                   reason |-> "Invalid or expired payment reference"]]
    ELSE IF expired
    THEN [pending |-> pending \ {reference},
          run |-> [reference |-> reference, state |-> "returned",
                   valid |-> FALSE, reason |-> "Payment timeout expired"]]
    ELSE [pending |-> pending,
          run |-> [reference |-> reference, state |-> "fetching",
                   valid |-> FALSE, reason |-> ""]]

\* verifyPayment after provider.getTransaction and tx.wait: the checks of
\* the transaction, then pendingPayments.delete(reference) and valid: true
BaseVerifyEnd(pending, run, outcome) ==
    IF outcome = "confirmed"
    THEN [pending |-> pending \ {run.reference},
          run |-> [run EXCEPT !.state = "returned", !.valid = TRUE]]
    ELSE [pending |-> pending,
          run |-> [run EXCEPT !.state = "returned", !.reason = outcome]]

\* generatePaymentDetails(amount): a new reference is stored as pending
BaseGeneratePaymentDetails ==
    /\ references < MaxReferences
    /\ references' = references + 1
    /\ pendingPayments' = pendingPayments \cup {references + 1}
    /\ UNCHANGED <<schema, activeHTTPSessions, issued, revoked, response,
                   chain, received, verifyRuns, proxy>>
    /\ UNCHANGED lifecycleVars

\* verifyPayment(proof) is called and runs to its first await or to its
\* return
BaseVerifyPayment(reference, txHash, expired) ==
    /\ Len(verifyRuns) < MaxCalls
    /\ LET r == BaseVerifyStart(pendingPayments, reference, txHash, expired)
       IN  /\ pendingPayments' = r.pending
           /\ verifyRuns' = Append(verifyRuns, r.run)
    /\ UNCHANGED <<schema, activeHTTPSessions, issued, revoked, response,
                   chain, received, references, proxy>>
    /\ UNCHANGED lifecycleVars

\* the chain has answered the k-th verifyPayment call: it runs to its return
BaseVerifyResume(k, outcome) ==
    /\ k \in 1..Len(verifyRuns)
    /\ verifyRuns[k].state = "fetching"
    /\ LET r == BaseVerifyEnd(pendingPayments, verifyRuns[k], outcome)
       IN  /\ pendingPayments' = r.pending
           /\ verifyRuns' = [verifyRuns EXCEPT ![k] = r.run]
    /\ UNCHANGED <<schema, activeHTTPSessions, issued, revoked, response,
                   chain, received, references, proxy>>
    /\ UNCHANGED lifecycleVars

BaseNext ==
    \/ BaseGeneratePaymentDetails
    \/ \E reference \in NoReference..references, txHash, expired \in BOOLEAN :
            BaseVerifyPayment(reference, txHash, expired)
    \/ \E k \in 1..Len(verifyRuns), outcome \in ChainOutcomes :
            BaseVerifyResume(k, outcome)

BaseSpec == Start(Late, {"ws1"}) /\ [][BaseNext]_vars

\* C35: of the verifyPayment calls made for a reference that
\* generatePaymentDetails issued, at most one returns valid = true.
C35_ReferenceSpentOnce ==
    \A reference \in 1..references :
        Cardinality({k \in 1..Len(verifyRuns) :
                        /\ verifyRuns[k].reference = reference
                        /\ verifyRuns[k].state = "returned"
                        /\ verifyRuns[k].valid}) <= 1

----------------------------------------------------------------------------
(* ProxyPaymentProvider of src/src/providers/ProxyPaymentProvider.ts:      *)
(* verifyPayment and the makeRequest it calls.  proxy.attempt is the       *)
(* attempt parameter of the running makeRequest, proxy.errors the errors   *)
(* its catch blocks have seen, proxy.request how the outermost makeRequest *)
(* ended and proxy.state where verifyPayment is.                           *)

\* retryAttempts: config.retryAttempts || 3
RetryAttempts == 3

\* message.proof of a payment_proof message that has no proof member
MissingProof == "undefined"

\* the text of a number of three digits, as a sequence of characters
DigitChars == <<"0", "1", "2", "3", "4", "5", "6", "7", "8", "9">>
Digits(n) ==
    <<DigitChars[(n \div 100) + 1], DigitChars[((n \div 10) % 10) + 1],
      DigitChars[(n % 10) + 1]>>

\* String.prototype.includes
Includes(text, pattern) ==
    \E i \in 1..(Len(text) - Len(pattern) + 1) :
        SubSeq(text, i, i + Len(pattern) - 1) = pattern

\* bodies of a gateway error response: no message, a message without a
\* number, and "minimum 1500"; "x" stands for a run of other characters
ErrorBodies == {<<>>, <<"x">>, <<"x", "1", "5", "0", "0">>}

\* errorData.message || `Gateway returned ${status}: ${statusText}`
HttpMessage(status, body) ==
    IF body # <<>> THEN body ELSE <<"x">> \o Digits(status) \o <<"x">>

\* what the catch block of makeRequest can see: the abort of the timeout, a
\* refused, timed out or reset connection, a body that is not JSON, and the
\* error thrown for a response that is not ok
GatewayErrors ==
    {[name |-> "AbortError", code |-> "", message |-> <<"x">>],
     [name |-> "FetchError", code |-> "ECONNREFUSED", message |-> <<"x">>],
     [name |-> "FetchError", code |-> "ETIMEDOUT", message |-> <<"x">>],
     [name |-> "FetchError", code |-> "ECONNRESET", message |-> <<"x">>],
     [name |-> "SyntaxError", code |-> "", message |-> <<"x">>]}
        \cup {[name |-> "Error", code |-> "",
               message |-> HttpMessage(status, body)] :
                    status \in {400, 503}, body \in ErrorBodies}

\* isRetryableError(error)
IsRetryableError(error) ==
    \/ error.name = "AbortError"
    \/ error.code = "ECONNREFUSED"
    \/ error.code = "ETIMEDOUT"
    \/ Includes(error.message, Digits(500))
    \/ Includes(error.message, Digits(502))
    \/ Includes(error.message, Digits(503))
    \/ Includes(error.message, Digits(504))

\* variant: one attempt more is made
Retry_Inclusive(attempt, error) ==
    attempt <= RetryAttempts /\ IsRetryableError(error)

\* variant: every error is retried
Retry_Any(attempt, error) == attempt < RetryAttempts

\* if (attempt < this.config.retryAttempts && this.isRetryableError(error))
Retry(attempt, error) == attempt < RetryAttempts /\ IsRetryableError(error)

\* the result of the catch block of verifyPayment
GatewayFailure ==
    [valid |-> FALSE, amount |-> 0, reason |-> "Gateway error",
     pricePerSecond |-> NoPrice]

\* verifyPayment(proof) is called: the log call ahead of the try block reads
\* proof.type, which throws for a proof that is undefined; otherwise the
\* first makeRequest starts
ProxyVerifyPayment(proof) ==
    /\ proxy.state = "idle"
    /\ proxy' = IF proof = MissingProof
                THEN [proxy EXCEPT !.state = "rejected", !.proof = proof]
                ELSE [proxy EXCEPT !.state = "fetching", !.proof = proof,
                                   !.attempt = 1, !.request = "pending"]
    /\ UNCHANGED <<schema, activeHTTPSessions, issued, revoked, response,
                   chain, received, references, pendingPayments, verifyRuns>>
    /\ UNCHANGED lifecycleVars

\* the gateway answers the running attempt with the verification v:
\* makeRequest returns it through its callers and verifyPayment returns its
\* valid, amount and reason
ProxyResponse(v) ==
    /\ proxy.state = "fetching"
    /\ proxy' = [proxy EXCEPT !.state = "returned", !.request = "returned",
                              !.result = v]
    /\ UNCHANGED <<schema, activeHTTPSessions, issued, revoked, response,
                   chain, received, references, pendingPayments, verifyRuns>>
    /\ UNCHANGED lifecycleVars

\* the running attempt fails with error: the catch block of makeRequest
\* either starts the delay before the next attempt or throws the error,
\* which the catch block of verifyPayment turns into its result
ProxyFailure(error) ==
    /\ proxy.state = "fetching"
    /\ proxy' = IF Retry(proxy.attempt, error)
                THEN [proxy EXCEPT !.state = "delay",
                                   !.errors = Append(@, error)]
                ELSE [proxy EXCEPT !.state = "returned",
                                   !.errors = Append(@, error),
                                   !.request = "threw", !.thrown = error,
                                   !.result = GatewayFailure]
    /\ UNCHANGED <<schema, activeHTTPSessions, issued, revoked, response,
                   chain, received, references, pendingPayments, verifyRuns>>
    /\ UNCHANGED lifecycleVars

\* await this.delay(1000 * attempt) is over: makeRequest(..., attempt + 1)
ProxyRetry ==
    /\ proxy.state = "delay"
    /\ proxy' = [proxy EXCEPT !.state = "fetching", !.attempt = @ + 1]
    /\ UNCHANGED <<schema, activeHTTPSessions, issued, revoked, response,
                   chain, received, references, pendingPayments, verifyRuns>>
    /\ UNCHANGED lifecycleVars

\* the running attempt ends, one way or the other
ProxySettle ==
    \/ \E v \in Verifications : ProxyResponse(v)
    \/ \E error \in GatewayErrors : ProxyFailure(error)

ProxyNext ==
    \/ \E proof \in Proofs \cup {MissingProof} : ProxyVerifyPayment(proof)
    \/ \E v \in Verifications : ProxyResponse(v)
    \/ \E error \in GatewayErrors : ProxyFailure(error)
    \/ ProxyRetry

\* every fetch ends (with a response, an error, or the abort of its timeout)
\* and every delay elapses
ProxySpec ==
    /\ Start(Late, {"ws1"})
    /\ [][ProxyNext]_vars
    /\ WF_vars(ProxySettle)
    /\ WF_vars(ProxyRetry)

\* C36: verifyPayment of ProxyPaymentProvider never rejects, whatever the
\* proof, and when the request to the gateway failed it returns valid =
\* false with amount 0 and a reason.
C36_NeverRejects ==
    /\ proxy.state # "rejected"
    /\ (proxy.state = "returned" /\ proxy.request = "threw")
            => (/\ ~proxy.result.valid
                /\ proxy.result.amount = 0
                /\ proxy.result.reason # "")

\* the errors of proxy.errors after which another attempt followed
Retried ==
    {i \in 1..Len(proxy.errors) :
        i < Len(proxy.errors) \/ proxy.state = "delay"}

----------------------------------------------------------------------------
(* Further payment_proof messages on a connection that has sent its first. *)

\* the frame of a payment_proof message: ASCII text, shortened here to its
\* braces and one letter for the proof
ProofFrame(p) == <<123, IF p = "proofA" THEN 65 ELSE 66, 125>>

\* a payment_proof message arrives after the first one.  During the
\* verification no 'message' listener is on the socket and the message is
\* dropped; on an active session the listener of handleConnection counts it
\* like any other message
LateProof(c, p) ==
    /\ pc[c] \in {"verifying", "active", "rejected", "failed"}
    /\ readyState[c] \in {"OPEN", "CLOSING"}
    /\ ~errored[c]
    /\ Len(proofMessages[c]) < MaxMessages
    /\ proofMessages' = [proofMessages EXCEPT ![c] = Append(@, p)]
    /\ IF pc[c] = "active"
       THEN /\ received' = [received EXCEPT ![c] = Append(@, ProofFrame(p))]
            /\ session' = [session EXCEPT ![c] = Counted(@, ProofFrame(p))]
       ELSE UNCHANGED <<received, session>>
    /\ UNCHANGED <<apiVars, userOf, userIdToWs, verifyCalls>>
    /\ UNCHANGED <<clients, now, readyState, errored, pc, connectedAt, caught,
                   paymentProof, verification, sessions, interval, lastFire,
                   inFlight, refundCalls, emitted, sent, refundResults,
                   tickTime, endCount, settlement>>

ProofNext ==
    \/ Lifecycle
    \/ \E c \in Conns, p \in Proofs : LateProof(c, p)

ProofSpec == Start(Late, {"ws1"}) /\ [][ProofNext]_vars

\* C38: verifyPayment is called at most once for a connection, with the
\* proof of its first payment_proof message, and at most one session is
\* created for it; a later payment_proof message starts no verification and
\* creates or replaces no session.
C38_VerifiedOnce ==
    /\ [](\A c \in Conns :
            /\ Len(verifyCalls[c]) <= 1
            /\ verifyCalls[c] # <<>> =>
                    verifyCalls[c] = <<proofMessages[c][1]>>
            /\ NumEmitted(c, "onPaymentVerified") <= 1)
    /\ [][\A c \in Conns :
            (proofMessages[c] # <<>> /\ proofMessages'[c] # proofMessages[c])
                => /\ verifyCalls' = verifyCalls
                   /\ paymentProof' = paymentProof
                   /\ pc' = pc
                   /\ sessions' = sessions
                   /\ Identity(session'[c]) = Identity(session[c])
                   /\ session'[c].status = session[c].status]_vars

C38_Witness ==
    \E c \in Conns :
        /\ Len(proofMessages[c]) >= 2
        /\ proofMessages[c][2] # proofMessages[c][1]
        /\ verifyCalls[c] = <<proofMessages[c][1]>>
        /\ session[c].status = "active"
        /\ session[c].messageCount = 1

----------------------------------------------------------------------------
(* The map of attach(): two connections, each made by a request of any of  *)
(* the users.                                                              *)

AttachNext ==
    \/ \E c \in Conns, u \in Users : Connect(c, u)
    \/ \E c \in Conns, p \in Proofs : ReceiveProof(c, p)
    \/ \E c \in Conns, v \in Verifications :
            v.valid /\ VerifyReturn(c, v, FALSE)
    \/ \E c \in Conns : CloseEvent(c)
    \/ \E c \in Conns : ErrorEvent(c)
    \/ \E c \in Conns : \E i \in 1..Len(inFlight[c]), ok \in BOOLEAN :
            RefundReturn(c, i, ok)

AttachSpec == Start(Late, Conns) /\ [][AttachNext]_vars

\* the connections of user u on which 'close' has not been emitted
OpenConnections(u) ==
    {c \in Conns : userOf[c] = u /\ readyState[c] \in {"OPEN", "CLOSING"}}

\* C39: the map returned by attach() has, for every user with a connection
\* that is not closed, an entry that points to such a connection of that
\* user, and no entry for a user without one.
C39_MapFollowsConnections ==
    \A u \in Users :
        IF OpenConnections(u) = {}
        THEN userIdToWs[u] = "none"
        ELSE userIdToWs[u] \in OpenConnections(u)

\* C40: when the usage interval fires for a connection that is not open, no
\* field of the session changes and nothing is sent to the client.
C40_TickOnClosedSocket ==
    [][\A c \in Conns :
        (/\ interval[c] = "running"
         /\ lastFire'[c] # lastFire[c]
         /\ readyState[c] # "OPEN")
            => /\ session'[c] = session[c]
               /\ sent'[c] = sent[c]
               /\ readyState'[c] = readyState[c]]_vars

C40_Witness ==
    \E c \in Conns :
        /\ interval[c] = "running"
        /\ readyState[c] = "CLOSING"
        /\ session[c].status = "active"
        /\ tickTime[c] >= 0
        /\ lastFire[c] > tickTime[c]

====
